---- MODULE Spec2Model ----
(***************************************************************************)
(* Model of calendar_embed/app.js: the half-day projection of reservations *)
(* and closed periods onto a view window, the occupancy / quick-turn       *)
(* classification of the two renderers, and the navigation state machine   *)
(* (Prev / Next / Today / month select / property filter / wheel).         *)
(*                                                                         *)
(* A JavaScript Date that holds a UTC midnight is modelled by its time     *)
(* value in whole days since 1970-01-01 (an integer).  An ISO date string  *)
(* "YYYY-MM-DD" is modelled by the triple <<y, m, d>> and a month string   *)
(* "YYYY-MM" by the pair <<y, m>>; the conversions between the two         *)
(* representations (parseDate, dateToISO, makeUTCDate, addDays) are        *)
(* computed with civil-calendar arithmetic, as the platform does.          *)
(***************************************************************************)
EXTENDS Integers, Sequences, FiniteSets, TLC

VARIABLES
    \* ---- navigation state machine (app.js globals and DOM controls)
    calendarData,        \* the loaded dataset: a sequence of properties
    viewStart,           \* let viewStart
    focusDate,           \* let focusDate
    pendingScrollToISO,  \* let pendingScrollToISO (<<>> is null)
    monthSelect,         \* monthSelect.value (<<>> is the empty value)
    propertyFilter,      \* propertyFilter.value
    calendarEl,          \* what the last render put into #calendar
    rafQueue,            \* requestAnimationFrame callbacks not yet run
    scrolled,            \* the date last scrolled into view in the displayed calendar
    lastAction,          \* the handler that ran last
    \* ---- classification of one property under an arbitrary window
    property,            \* the property whose events are classified
    out,                 \* the result of the last classification
    \* ---- halfIndex applied to drawn arguments
    hiArgs,
    hiOut

vars == <<calendarData, viewStart, focusDate, pendingScrollToISO, monthSelect,
          propertyFilter, calendarEl, rafQueue, scrolled, lastAction,
          property, out, hiArgs, hiOut>>

uiVars == <<calendarData, viewStart, focusDate, pendingScrollToISO, monthSelect,
            propertyFilter, calendarEl, rafQueue, scrolled, lastAction>>

coreVars == <<property, out>>

hiVars == <<hiArgs, hiOut>>

(***************************************************************************)
(* Calendar arithmetic                                                     *)
(***************************************************************************)

\* Date.UTC(y, m, d) for a month m in 1..12: days since 1970-01-01 of the
\* proleptic Gregorian date (the day may lie outside the month).  The year is
\* counted from March (yy, mp), split into 400-year eras (era, yoe), and the
\* day of the year (doy) is counted from March 1.
DaysFromEra(era, yoe, doy) ==
    era * 146097 + yoe * 365 + yoe \div 4 - yoe \div 100 + doy - 719468

DaysFromMarchYear(yy, mp, d) ==
    DaysFromEra(yy \div 400, yy % 400, (153 * mp + 2) \div 5 + d - 1)

DaysFromCivil(y, m, d) ==
    DaysFromMarchYear(IF m <= 2 THEN y - 1 ELSE y, IF m > 2 THEN m - 3 ELSE m + 9, d)

\* getUTCFullYear / getUTCMonth + 1 / getUTCDate of a Date, as <<y, m, d>>:
\* the inverse of DaysFromCivil, through the day of the era (doe), the year
\* of the era (yoe), the day of the March year (doy) and its month (mp).
CivilFromMonth(era, yoe, doy, mp) ==
    << yoe + era * 400 + (IF mp >= 10 THEN 1 ELSE 0),
       IF mp < 10 THEN mp + 3 ELSE mp - 9,
       doy - (153 * mp + 2) \div 5 + 1 >>

CivilFromDayOfYear(era, yoe, doy) ==
    CivilFromMonth(era, yoe, doy, (5 * doy + 2) \div 153)

CivilFromYearOfEra(era, doe, yoe) ==
    CivilFromDayOfYear(era, yoe, doe - (365 * yoe + yoe \div 4 - yoe \div 100))

CivilFromDayOfEra(era, doe) ==
    CivilFromYearOfEra(era, doe,
        (doe - doe \div 1460 + doe \div 36524 - doe \div 146096) \div 365)

CivilFromDays(z) ==
    CivilFromDayOfEra((z + 719468) \div 146097, (z + 719468) % 146097)

\* makeUTCDate(year, month, day): month is 0-based and may overflow either way.
makeUTCDate(year, month, day) ==
    DaysFromCivil(year + (month \div 12), (month % 12) + 1, 1) + (day - 1)

getUTCFullYear(dateObj) == CivilFromDays(dateObj)[1]

\* 0-based, as in JavaScript.
getUTCMonth(dateObj) == CivilFromDays(dateObj)[2] - 1

getUTCDate(dateObj) == CivilFromDays(dateObj)[3]

\* 0 = Sunday; 1970-01-01 was a Thursday.
getUTCDay(dateObj) == (dateObj + 4) % 7

\* next.setUTCDate(next.getUTCDate() + days)
addDays(dateObj, days) ==
    makeUTCDate(getUTCFullYear(dateObj), getUTCMonth(dateObj), getUTCDate(dateObj) + days)

\* value.split('-').map(Number) -> makeUTCDate(year, month - 1, day)
parseDate(value) == makeUTCDate(value[1], value[2] - 1, value[3])

\* dateObj.toISOString().slice(0, 10)
dateToISO(dateObj) == CivilFromDays(dateObj)

\* dateObj.toISOString().slice(0, 7)
monthToISO(dateObj) == <<CivilFromDays(dateObj)[1], CivilFromDays(dateObj)[2]>>

\* Math.round((end - start) / 86400000)
diffDays(start, end) == end - start

startOfWeek(dateObj) == addDays(dateObj, -((getUTCDay(dateObj) + 6) % 7))

\* The historical defect the README describes: the index taken from the
\* day-of-month instead of the distance to the range start.
halfIndexDayOfMonth(dateObj, rangeStart, half) ==
    (getUTCDate(dateObj) - getUTCDate(rangeStart)) * 2 + (IF half = "pm" THEN 2 ELSE 1)

halfIndex(dateObj, rangeStart, half) ==
    LET diff == dateObj - rangeStart
    IN  diff * 2 + (IF half = "pm" THEN 2 ELSE 1)

(***************************************************************************)
(* Event span projection                                                   *)
(***************************************************************************)

\* The null that computeEventSpan returns for an event outside the window.
null == [isNull |-> TRUE]

\* computeEventSpan with the closed period's check-out rule lost: a closed
\* period always starts in the morning.
computeEventSpanNoCheckoutRule(event, rangeStart, rangeEndExclusive, reservationCheckouts) ==
    LET eventStart   == parseDate(event.start)
        eventEnd     == parseDate(event.end)
        displayStart == IF eventStart < rangeStart THEN rangeStart ELSE eventStart
        displayEnd   == IF eventEnd > rangeEndExclusive THEN rangeEndExclusive ELSE eventEnd
        days         == rangeEndExclusive - rangeStart
    IN  IF eventEnd <= rangeStart \/ eventStart >= rangeEndExclusive THEN null
        ELSE IF event.type = "closed" THEN
            [startHalf |-> halfIndex(displayStart, rangeStart, "am"),
             endHalf   |-> IF eventEnd >= rangeEndExclusive
                             THEN days * 2 + 1
                             ELSE halfIndex(displayEnd, rangeStart, "am")]
        ELSE
            [startHalf |-> IF eventStart < rangeStart
                             THEN halfIndex(rangeStart, rangeStart, "am")
                             ELSE halfIndex(displayStart, rangeStart, "pm"),
             endHalf   |-> IF eventEnd >= rangeEndExclusive
                             THEN days * 2 + 1
                             ELSE halfIndex(displayEnd, rangeStart, "am") + 1]

\* computeEventSpan with the reservation's check-out morning lost (no + 1).
computeEventSpanNoCheckoutMorning(event, rangeStart, rangeEndExclusive, reservationCheckouts) ==
    LET eventStart   == parseDate(event.start)
        eventEnd     == parseDate(event.end)
        displayStart == IF eventStart < rangeStart THEN rangeStart ELSE eventStart
        displayEnd   == IF eventEnd > rangeEndExclusive THEN rangeEndExclusive ELSE eventEnd
        days         == rangeEndExclusive - rangeStart
    IN  IF eventEnd <= rangeStart \/ eventStart >= rangeEndExclusive THEN null
        ELSE IF event.type = "closed" THEN
            [startHalf |-> halfIndex(displayStart, rangeStart,
                                     IF event.start \in reservationCheckouts THEN "pm" ELSE "am"),
             endHalf   |-> IF eventEnd >= rangeEndExclusive
                             THEN days * 2 + 1
                             ELSE halfIndex(displayEnd, rangeStart, "am")]
        ELSE
            [startHalf |-> IF eventStart < rangeStart
                             THEN halfIndex(rangeStart, rangeStart, "am")
                             ELSE halfIndex(displayStart, rangeStart, "pm"),
             endHalf   |-> IF eventEnd >= rangeEndExclusive
                             THEN days * 2 + 1
                             ELSE halfIndex(displayEnd, rangeStart, "am")]

\* computeEventSpan with the no-overlap test off by one day at the window's
\* start (eventEnd < rangeStart instead of <=).
computeEventSpanLooseOverlap(event, rangeStart, rangeEndExclusive, reservationCheckouts) ==
    LET eventStart   == parseDate(event.start)
        eventEnd     == parseDate(event.end)
        displayStart == IF eventStart < rangeStart THEN rangeStart ELSE eventStart
        displayEnd   == IF eventEnd > rangeEndExclusive THEN rangeEndExclusive ELSE eventEnd
        days         == rangeEndExclusive - rangeStart
    IN  IF eventEnd < rangeStart \/ eventStart >= rangeEndExclusive THEN null
        ELSE IF event.type = "closed" THEN
            [startHalf |-> halfIndex(displayStart, rangeStart,
                                     IF event.start \in reservationCheckouts THEN "pm" ELSE "am"),
             endHalf   |-> IF eventEnd >= rangeEndExclusive
                             THEN days * 2 + 1
                             ELSE halfIndex(displayEnd, rangeStart, "am")]
        ELSE
            [startHalf |-> IF eventStart < rangeStart
                             THEN halfIndex(rangeStart, rangeStart, "am")
                             ELSE halfIndex(displayStart, rangeStart, "pm"),
             endHalf   |-> IF eventEnd >= rangeEndExclusive
                             THEN days * 2 + 1
                             ELSE halfIndex(displayEnd, rangeStart, "am") + 1]

computeEventSpan(event, rangeStart, rangeEndExclusive, reservationCheckouts) ==
    LET eventStart   == parseDate(event.start)
        eventEnd     == parseDate(event.end)
        displayStart == IF eventStart < rangeStart THEN rangeStart ELSE eventStart
        displayEnd   == IF eventEnd > rangeEndExclusive THEN rangeEndExclusive ELSE eventEnd
        days         == rangeEndExclusive - rangeStart
    IN  IF eventEnd <= rangeStart \/ eventStart >= rangeEndExclusive THEN null
        ELSE IF event.type = "closed" THEN
            LET startsOnCheckout == event.start \in reservationCheckouts
            IN  [startHalf |-> halfIndex(displayStart, rangeStart,
                                         IF startsOnCheckout THEN "pm" ELSE "am"),
                 endHalf   |-> IF eventEnd >= rangeEndExclusive
                                 THEN days * 2 + 1
                                 ELSE halfIndex(displayEnd, rangeStart, "am")]
        ELSE
            [startHalf |-> IF eventStart < rangeStart
                             THEN halfIndex(rangeStart, rangeStart, "am")
                             ELSE halfIndex(displayStart, rangeStart, "pm"),
             endHalf   |-> IF eventEnd >= rangeEndExclusive
                             THEN days * 2 + 1
                             ELSE halfIndex(displayEnd, rangeStart, "am") + 1]

(***************************************************************************)
(* Rolling-window renderer: one property row (renderCalendar's forEach)    *)
(***************************************************************************)

\* No pill is appended for the event.
noPill == [drawn |-> FALSE]

\* reservationEnds / reservationCheckouts of renderCalendar: the end strings
\* of the events whose type is not 'closed'.
rollingCheckouts(events) ==
    {events[i].end : i \in {j \in DOMAIN events : events[j].type # "closed"}}

\* quickTurns of renderCalendar: start strings that are also end strings.
rollingQuickTurns(events) ==
    LET reservationStarts ==
            {events[i].start : i \in {j \in DOMAIN events : events[j].type # "closed"}}
        reservationEnds == rollingCheckouts(events)
    IN  {dateStr \in reservationStarts : dateStr \in reservationEnds}

\* The row renderCalendar builds for one property: the span computeEventSpan
\* returned for each event, the pill drawn for it (none when the span is null
\* or endHalf <= startHalf), the occupied half slots, and the availability
\* cells that got the classes 'occupied' and 'quick-turn'.
rollingRow(prop, rangeStart, rangeEndExclusive, days) ==
    LET events == prop.events
        reservationCheckouts == rollingCheckouts(events)
        quickTurns == rollingQuickTurns(events)
        spans == [i \in DOMAIN events |->
                    computeEventSpan(events[i], rangeStart, rangeEndExclusive,
                                     reservationCheckouts)]
        pills == [i \in DOMAIN events |->
                    IF spans[i] = null THEN noPill
                    ELSE IF spans[i].endHalf <= spans[i].startHalf THEN noPill
                    ELSE [drawn |-> TRUE, startHalf |-> spans[i].startHalf,
                          endHalf |-> spans[i].endHalf]]
        occupied == UNION {pills[i].startHalf .. (pills[i].endHalf - 1) :
                             i \in {j \in DOMAIN events : pills[j].drawn}}
        cellDays == {day \in 0 .. (days - 1) :
                        (day * 2 + 1) \in occupied \/ (day * 2 + 2) \in occupied}
        turnDays == {day \in 0 .. (days - 1) :
                        dateToISO(addDays(rangeStart, day)) \in quickTurns}
    IN  [name          |-> prop.name,
         checkouts     |-> reservationCheckouts,
         quickTurns    |-> quickTurns,
         spans         |-> spans,
         pills         |-> pills,
         occupied      |-> occupied,
         occupiedCells |-> {dateToISO(addDays(rangeStart, day)) : day \in cellDays},
         quickCells    |-> {dateToISO(addDays(rangeStart, day)) : day \in turnDays}]

(***************************************************************************)
(* Month renderer (renderSingleProperty)                                   *)
(***************************************************************************)

\* The non-closed events of a list, by index.
reservationIdx(events) == {j \in DOMAIN events : events[j].type # "closed"}

\* reservationStarts.get(dateStr) and reservationEnds.get(dateStr): the uids
\* of the non-closed events that start (end) on the date string.
startIdsOn(events, dateStr) ==
    {events[i].uid : i \in {j \in reservationIdx(events) : events[j].start = dateStr}}

endIdsOn(events, dateStr) ==
    {events[i].uid : i \in {j \in reservationIdx(events) : events[j].end = dateStr}}

\* quickTurns of renderSingleProperty: a start date that has end ids and a
\* start id that is not among them.
singleQuickTurns(events) ==
    {dateStr \in {events[i].start : i \in reservationIdx(events)} :
        /\ endIdsOn(events, dateStr) # {}
        /\ \E id \in startIdsOn(events, dateStr) : id \notin endIdsOn(events, dateStr)}

\* reservationCheckouts of renderSingleProperty: the keys of reservationEnds.
singleCheckouts(events) == {events[i].end : i \in reservationIdx(events)}

\* occupied of renderSingleProperty: the ISO dates of the days each event
\* covers after clipping to the grid.
singleOccupied(events, gridStart, gridEndExclusive) ==
    UNION { LET startDate == parseDate(events[i].start)
                endDate   == parseDate(events[i].end)
                start == IF startDate < gridStart THEN gridStart ELSE startDate
                end   == IF endDate > gridEndExclusive THEN gridEndExclusive ELSE endDate
            IN  IF endDate <= gridStart \/ startDate >= gridEndExclusive THEN {}
                ELSE {dateToISO(addDays(start, day)) :
                        day \in 0 .. (diffDays(start, end) - 1)}
          : i \in DOMAIN events }

\* The week pill with the end clamp taken only for an event that ends after
\* the week (>) instead of on or after its end (>=).
weekPillLooseEndClamp(event, weekStart, reservationCheckouts) ==
    LET startDate         == parseDate(event.start)
        endDate           == parseDate(event.end)
        rangeStart        == weekStart
        rangeEndExclusive == addDays(weekStart, 7)
        displayStart == IF startDate < rangeStart THEN rangeStart ELSE startDate
        displayEnd   == IF endDate > rangeEndExclusive THEN rangeEndExclusive ELSE endDate
        colStart == IF event.type = "closed"
                      THEN halfIndex(displayStart, rangeStart,
                                     IF event.start \in reservationCheckouts
                                       THEN "pm" ELSE "am")
                      ELSE IF startDate < rangeStart
                             THEN halfIndex(rangeStart, rangeStart, "am")
                             ELSE halfIndex(displayStart, rangeStart, "pm")
        colEnd   == IF event.type = "closed"
                      THEN IF endDate > rangeEndExclusive
                             THEN 7 * 2 + 1
                             ELSE halfIndex(displayEnd, rangeStart, "am")
                      ELSE IF endDate > rangeEndExclusive
                             THEN 7 * 2 + 1
                             ELSE halfIndex(displayEnd, rangeStart, "am") + 1
    IN  IF endDate <= weekStart \/ startDate >= addDays(weekStart, 7) THEN noPill
        ELSE IF displayEnd <= displayStart THEN noPill
        ELSE IF colEnd <= colStart THEN noPill
        ELSE [drawn |-> TRUE, startHalf |-> colStart, endHalf |-> colEnd]

\* The pill renderSingleProperty appends for one event in the week row that
\* starts on weekStart.
weekPill(event, weekStart, reservationCheckouts) ==
    LET startDate         == parseDate(event.start)
        endDate           == parseDate(event.end)
        rangeStart        == weekStart
        rangeEndExclusive == addDays(weekStart, 7)
        displayStart == IF startDate < rangeStart THEN rangeStart ELSE startDate
        displayEnd   == IF endDate > rangeEndExclusive THEN rangeEndExclusive ELSE endDate
        colStart == IF event.type = "closed"
                      THEN halfIndex(displayStart, rangeStart,
                                     IF event.start \in reservationCheckouts
                                       THEN "pm" ELSE "am")
                      ELSE IF startDate < rangeStart
                             THEN halfIndex(rangeStart, rangeStart, "am")
                             ELSE halfIndex(displayStart, rangeStart, "pm")
        colEnd   == IF event.type = "closed"
                      THEN IF endDate >= rangeEndExclusive
                             THEN 7 * 2 + 1
                             ELSE halfIndex(displayEnd, rangeStart, "am")
                      ELSE IF endDate >= rangeEndExclusive
                             THEN 7 * 2 + 1
                             ELSE halfIndex(displayEnd, rangeStart, "am") + 1
    IN  IF endDate <= weekStart \/ startDate >= addDays(weekStart, 7) THEN noPill
        ELSE IF displayEnd <= displayStart THEN noPill
        ELSE IF colEnd <= colStart THEN noPill
        ELSE [drawn |-> TRUE, startHalf |-> colStart, endHalf |-> colEnd]

\* What renderSingleProperty builds for a property and a month: the week
\* aligned grid, the quick-turn and occupied date sets, the month cells that
\* got the classes 'occupied' and 'quick-turn', and the pills of each week.
singleView(prop, monthStart) ==
    LET events == prop.events
        monthEndExclusive ==
            makeUTCDate(getUTCFullYear(monthStart), getUTCMonth(monthStart) + 1, 1)
        gridStart == startOfWeek(monthStart)
        gridEndExclusive == addDays(startOfWeek(addDays(monthEndExclusive, -1)), 7)
        totalDays == diffDays(gridStart, gridEndExclusive)
        weeks == (totalDays + 6) \div 7
        quickTurns == singleQuickTurns(events)
        reservationCheckouts == singleCheckouts(events)
        occupied == singleOccupied(events, gridStart, gridEndExclusive)
        cellDates == {dateToISO(addDays(addDays(gridStart, w * 7), d)) :
                        w \in 0 .. (weeks - 1), d \in 0 .. 6}
    IN  [name             |-> prop.name,
         monthStart       |-> monthStart,
         gridStart        |-> gridStart,
         gridEndExclusive |-> gridEndExclusive,
         weeks            |-> weeks,
         checkouts        |-> reservationCheckouts,
         quickTurns       |-> quickTurns,
         occupied         |-> occupied,
         occupiedCells    |-> {c \in cellDates : c \in occupied},
         quickCells       |-> {c \in cellDates : c \in quickTurns},
         pills            |-> [w \in 0 .. (weeks - 1) |->
                                 [i \in DOMAIN events |->
                                    weekPill(events[i], addDays(gridStart, w * 7),
                                             reservationCheckouts)]]]

(***************************************************************************)
(* Navigation state machine                                                *)
(***************************************************************************)

VIEW_DAYS == 365

MIN_DATE == makeUTCDate(2026, 0, 1)

VIEW_SHIFT_DAYS == 30

\* Handlers are followed no further than this many days from MIN_DATE.
MaxFocusDays == 70

\* At most this many animation-frame callbacks wait at a time.
MaxRaf == 2

\* The set of "YYYY-MM" option values buildMonthOptions creates: for every
\* event, each month from the month of its start to the month of its end.
monthOptions(data) ==
    UNION { UNION { LET start == parseDate(data[p].events[i].start)
                        end   == parseDate(data[p].events[i].end)
                        count == (getUTCFullYear(end) * 12 + getUTCMonth(end))
                                 - (getUTCFullYear(start) * 12 + getUTCMonth(start))
                    IN  {monthToISO(makeUTCDate(getUTCFullYear(start),
                                                getUTCMonth(start) + k, 1)) :
                            k \in 0 .. count}
                  : i \in DOMAIN data[p].events }
          : p \in DOMAIN data }

\* The option values buildPropertyFilter creates.
filterOptions(data) == {"all"} \cup {data[p].name : p \in DOMAIN data}

\* monthSelect.value after syncMonthSelect(dateObj): assigning a value that no
\* option carries leaves the select without a selection (value '').
syncMonthSelect(sel, dateObj, data) ==
    LET value == monthToISO(dateObj)
    IN  IF sel = value THEN sel
        ELSE IF value \in monthOptions(data) THEN value
        ELSE <<>>

\* getSelectedMonthStart (focusDate is set from loadData on, so the fall-back
\* to viewStart is never taken).
getSelectedMonthStart(sel, focus) ==
    IF sel # <<>>
      THEN makeUTCDate(sel[1], sel[2] - 1, 1)
      ELSE makeUTCDate(getUTCFullYear(focus), getUTCMonth(focus), 1)

\* rangeStart of renderCalendar: viewStart, snapped to MIN_DATE when it lies
\* less than VIEW_DAYS after it.
rollingRangeStart(vs) ==
    LET daysFromMin == diffDays(MIN_DATE, vs)
    IN  IF daysFromMin >= 0 /\ daysFromMin < VIEW_DAYS THEN MIN_DATE ELSE vs

\* renderCalendar with the previous scroll container left in the document, so
\* that callbacks scheduled by earlier renders still find a displayed cell.
renderCalendarKeepsOldScroll(vs, fd, pend, sel, filter, data, queue) ==
    LET detached == queue
    IN  IF filter # "all" THEN
            [pending    |-> pend,
             calendarEl |-> [mode       |-> "single",
                             property   |-> CHOOSE q \in DOMAIN data : data[q].name = filter,
                             monthStart |-> getSelectedMonthStart(sel, fd)],
             rafQueue   |-> detached]
        ELSE
            LET rangeStart        == rollingRangeStart(vs)
                rangeEndExclusive == addDays(rangeStart, VIEW_DAYS)
                labelDate         == getSelectedMonthStart(sel, fd)
            IN  [pending    |-> <<>>,
                 calendarEl |-> [mode              |-> "rolling",
                                 rangeStart        |-> rangeStart,
                                 rangeEndExclusive |-> rangeEndExclusive,
                                 label             |-> monthToISO(labelDate)],
                 rafQueue   |->
                    IF pend # <<>>
                      THEN Append(detached,
                                  [target   |-> pend,
                                   attached |-> TRUE,
                                   found    |-> /\ parseDate(pend) >= rangeStart
                                                /\ parseDate(pend) < rangeEndExclusive])
                      ELSE detached]

\* renderCalendar(): what it leaves in #calendar, in pendingScrollToISO and in
\* the animation-frame queue.  What it draws is a function of the dataset and
\* of the window (rolling view) or of the property and the month (month
\* view), so #calendar is recorded by those; displayedRows and displayedMonth
\* below give the rows and the month grid drawn from them.  Replacing
\* #calendar's content detaches the scroll container every waiting callback
\* holds.
renderCalendar(vs, fd, pend, sel, filter, data, queue) ==
    LET detached == [k \in DOMAIN queue |-> [queue[k] EXCEPT !.attached = FALSE]]
    IN  IF filter # "all" THEN
            [pending    |-> pend,
             calendarEl |-> [mode       |-> "single",
                             property   |-> CHOOSE q \in DOMAIN data : data[q].name = filter,
                             monthStart |-> getSelectedMonthStart(sel, fd)],
             rafQueue   |-> detached]
        ELSE
            LET rangeStart        == rollingRangeStart(vs)
                rangeEndExclusive == addDays(rangeStart, VIEW_DAYS)
                labelDate         == getSelectedMonthStart(sel, fd)
            IN  [pending    |-> <<>>,
                 calendarEl |-> [mode              |-> "rolling",
                                 rangeStart        |-> rangeStart,
                                 rangeEndExclusive |-> rangeEndExclusive,
                                 label             |-> monthToISO(labelDate)],
                 rafQueue   |->
                    IF pend # <<>>
                      THEN Append(detached,
                                  [target   |-> pend,
                                   attached |-> TRUE,
                                   found    |-> /\ parseDate(pend) >= rangeStart
                                                /\ parseDate(pend) < rangeEndExclusive])
                      ELSE detached]

\* The property rows of the displayed rolling view (renderCalendar's
\* properties.forEach, with days = VIEW_DAYS).
displayedRows ==
    [q \in DOMAIN calendarData |->
        rollingRow(calendarData[q], calendarEl.rangeStart,
                   calendarEl.rangeEndExclusive, VIEW_DAYS)]

\* The month grid of the displayed month view (renderSingleProperty).
displayedMonth == singleView(calendarData[calendarEl.property], calendarEl.monthStart)

\* The state a handler leaves after its final renderCalendar() call.
Render(vs, fd, pend, sel, filter, name) ==
    LET r == renderCalendar(vs, fd, pend, sel, filter, calendarData, rafQueue)
    IN  /\ viewStart' = vs
        /\ focusDate' = fd
        /\ monthSelect' = sel
        /\ propertyFilter' = filter
        /\ pendingScrollToISO' = r.pending
        /\ calendarEl' = r.calendarEl
        /\ rafQueue' = r.rafQueue
        /\ scrolled' = <<>>
        /\ lastAction' = name
        /\ UNCHANGED calendarData

\* setViewStart(dateObj, scrollToISO, focusOverride); every caller passes a
\* scroll target and a focus override.
setViewStart(dateObj, scrollToISO, focusOverride, sel, name) ==
    LET vs == makeUTCDate(getUTCFullYear(dateObj), getUTCMonth(dateObj),
                          getUTCDate(dateObj))
        fd == focusOverride
    IN  Render(vs, fd, scrollToISO, syncMonthSelect(sel, fd, calendarData),
               propertyFilter, name)

\* setFocusDate(dateObj)
setFocusDate(dateObj, sel, name) ==
    LET clamped == IF dateObj < MIN_DATE THEN MIN_DATE ELSE dateObj
    IN  Render(MIN_DATE, clamped, dateToISO(clamped),
               syncMonthSelect(sel, clamped, calendarData), propertyFilter, name)

\* A date the model follows the handlers to.
InReach(dateObj) ==
    /\ diffDays(MIN_DATE, dateObj) <= MaxFocusDays
    /\ diffDays(dateObj, MIN_DATE) <= MaxFocusDays

\* shiftView(days)
shiftView(days, name) ==
    IF propertyFilter # "all" THEN
        LET current == getSelectedMonthStart(monthSelect, focusDate)
            delta   == IF days > 0 THEN 1 ELSE -1
            next    == makeUTCDate(getUTCFullYear(current), getUTCMonth(current) + delta, 1)
        IN  /\ InReach(next)
            /\ setViewStart(next, dateToISO(next), next, monthSelect, name)
    ELSE
        LET currentFocus == focusDate
            nextFocus    == addDays(currentFocus, days)
        IN  /\ InReach(nextFocus)
            /\ setFocusDate(nextFocus, monthSelect, name)

\* The dates todayInTimeZone() may resolve to.
Todays == {parseDate(<<2026, 2, 10>>), parseDate(<<2026, 3, 5>>)}

ClickPrev ==
    /\ Len(rafQueue) < MaxRaf
    /\ shiftView(-VIEW_SHIFT_DAYS, "prev")

ClickNext ==
    /\ Len(rafQueue) < MaxRaf
    /\ shiftView(VIEW_SHIFT_DAYS, "next")

ClickToday ==
    /\ Len(rafQueue) < MaxRaf
    /\ \E todayUTC \in Todays :
          IF propertyFilter = "all"
            THEN setFocusDate(todayUTC, monthSelect, "today")
            ELSE setViewStart(addDays(todayUTC, -7), dateToISO(todayUTC), todayUTC,
                              monthSelect, "today")

\* The user picks another month option; the change handler runs.
MonthSelectChange ==
    /\ Len(rafQueue) < MaxRaf
    /\ \E value \in monthOptions(calendarData) :
          /\ value # monthSelect
          /\ LET target == makeUTCDate(value[1], value[2] - 1, 1)
             IN  IF propertyFilter = "all"
                   THEN setFocusDate(target, value, "month")
                   ELSE setViewStart(target, dateToISO(target), target, value, "month")

\* The user picks another property filter option; the change handler runs.
FilterChange ==
    /\ Len(rafQueue) < MaxRaf
    /\ \E value \in filterOptions(calendarData) :
          /\ value # propertyFilter
          /\ Render(viewStart, focusDate, pendingScrollToISO, monthSelect, value, "filter")

\* The wheel listener of the month view's wrapper.
Wheel ==
    /\ Len(rafQueue) < MaxRaf
    /\ calendarEl.mode = "single"
    /\ \E delta \in {-1, 1} : shiftView(delta, "wheel")

\* The browser runs the oldest waiting animation-frame callback: it scrolls
\* the target's day cell into view when its scroll container has that cell
\* and is still part of the document.
RunRaf ==
    /\ rafQueue # <<>>
    /\ rafQueue' = Tail(rafQueue)
    /\ scrolled' = IF Head(rafQueue).found /\ Head(rafQueue).attached
                     THEN Head(rafQueue).target
                     ELSE scrolled
    /\ lastAction' = "raf"
    /\ UNCHANGED <<calendarData, viewStart, focusDate, pendingScrollToISO,
                   monthSelect, propertyFilter, calendarEl>>

(***************************************************************************)
(* Specification of the navigation state machine                           *)
(***************************************************************************)

\* Two datasets as build_calendar_data.py assembles them: properties with
\* reservations and closed periods, one of them reaching back before MIN_DATE.
DataWinter ==
    << [name   |-> "59 Oak Lane",
        events |-> << [uid |-> "r1", type |-> "reservation",
                       start |-> <<2025, 12, 28>>, end |-> <<2026, 1, 3>>],
                      [uid |-> "c1", type |-> "closed",
                       start |-> <<2026, 1, 3>>, end |-> <<2026, 1, 6>>],
                      [uid |-> "r2", type |-> "reservation",
                       start |-> <<2026, 2, 1>>, end |-> <<2026, 2, 5>>] >>],
       [name   |-> "333 Dobie",
        events |-> << [uid |-> "r3", type |-> "reservation",
                       start |-> <<2026, 1, 10>>, end |-> <<2026, 1, 12>>],
                      [uid |-> "r4", type |-> "reservation",
                       start |-> <<2026, 1, 12>>, end |-> <<2026, 1, 15>>] >>] >>

DataSpring ==
    << [name   |-> "59 Oak Lane",
        events |-> << [uid |-> "r5", type |-> "reservation",
                       start |-> <<2026, 1, 30>>, end |-> <<2026, 2, 1>>],
                      [uid |-> "c2", type |-> "closed",
                       start |-> <<2026, 2, 1>>, end |-> <<2026, 2, 3>>] >>] >>

Datasets == {DataWinter, DataSpring}

\* The value of a freshly filled select: its first option.
firstOption(options) ==
    IF options = {} THEN <<>>
    ELSE CHOOSE v \in options :
            \A w \in options : v[1] * 12 + v[2] <= w[1] * 12 + w[2]

\* The classification and halfIndex parts at rest.
coreIdle == property = [name |-> "", events |-> <<>>] /\ out = [kind |-> "none"]

hiIdle == hiArgs = <<>> /\ hiOut = [done |-> FALSE]

uiIdle ==
    /\ calendarData = <<>>
    /\ viewStart = MIN_DATE
    /\ focusDate = MIN_DATE
    /\ pendingScrollToISO = <<>>
    /\ monthSelect = <<>>
    /\ propertyFilter = "all"
    /\ calendarEl = [mode |-> "none"]
    /\ rafQueue = <<>>
    /\ scrolled = <<>>
    /\ lastAction = "none"

\* The state loadData() leaves: the dataset loaded, the controls built, the
\* view anchored on 2026-01-01 and rendered once.
Init ==
    /\ calendarData \in Datasets
    /\ viewStart = makeUTCDate(2026, 0, 1)
    /\ focusDate = addDays(makeUTCDate(2026, 0, 1), 7)
    /\ monthSelect = syncMonthSelect(firstOption(monthOptions(calendarData)),
                                     addDays(makeUTCDate(2026, 0, 1), 7), calendarData)
    /\ propertyFilter = "all"
    /\ LET r == renderCalendar(viewStart, focusDate, <<>>, monthSelect, "all",
                               calendarData, <<>>)
       IN  /\ pendingScrollToISO = r.pending
           /\ calendarEl = r.calendarEl
           /\ rafQueue = r.rafQueue
    /\ scrolled = <<>>
    /\ lastAction = "load"
    /\ coreIdle
    /\ hiIdle

Next ==
    \/ (ClickPrev /\ UNCHANGED <<coreVars, hiVars>>)
    \/ (ClickNext /\ UNCHANGED <<coreVars, hiVars>>)
    \/ (ClickToday /\ UNCHANGED <<coreVars, hiVars>>)
    \/ (MonthSelectChange /\ UNCHANGED <<coreVars, hiVars>>)
    \/ (FilterChange /\ UNCHANGED <<coreVars, hiVars>>)
    \/ (Wheel /\ UNCHANGED <<coreVars, hiVars>>)
    \/ (RunRaf /\ UNCHANGED <<coreVars, hiVars>>)

Spec == Init /\ [][Next]_vars

(***************************************************************************)
(* Specifications of the classification of one property                    *)
(*                                                                         *)
(* The property's events are drawn from every combination of type, start   *)
(* and end over a few days around a month boundary (degenerate events with *)
(* end <= start included, as the code does not filter them).  SpecRolling  *)
(* builds the rolling view's row for windows of every start and length     *)
(* within the bounds, SpecMonth the month grid for the months the days     *)
(* fall in.                                                                *)
(***************************************************************************)

\* The first day events may start or end on.
DateBase == <<2026, 1, 29>>

\* Events start and end on one of this many consecutive days from DateBase.
NumDates == 6

\* Windows are up to this many days long.
MaxDays == 5

EventDates == {dateToISO(addDays(parseDate(DateBase), k)) : k \in 0 .. (NumDates - 1)}

EventTypes == {"reservation", "closed"}

\* The events one uid may stand for.
EventInputs(uid) ==
    [uid : {uid}, type : EventTypes, start : EventDates, end : EventDates]

\* A property with two events of distinct uids.
PropertyInputs ==
    {[name |-> "59 Oak Lane", events |-> <<a, b>>] :
        a \in EventInputs("a"), b \in EventInputs("b")}

\* The days a window may start on.
WindowStarts ==
    {parseDate(<<2026, 1, 29>>), parseDate(<<2026, 1, 30>>), parseDate(<<2026, 1, 31>>)}

\* The months renderSingleProperty is asked for.
MonthInputs == {makeUTCDate(2026, 0, 1), makeUTCDate(2026, 1, 1)}

InitCore ==
    /\ property \in PropertyInputs
    /\ out = [kind |-> "none"]
    /\ uiIdle
    /\ hiIdle

\* renderCalendar's row for the property under a window.
ClassifyRolling ==
    /\ out.kind = "none"
    /\ \E rangeStart \in WindowStarts, days \in 1 .. MaxDays :
          /\ out' = [kind              |-> "rolling",
                     rangeStart        |-> rangeStart,
                     rangeEndExclusive |-> addDays(rangeStart, days),
                     days              |-> days,
                     row               |-> rollingRow(property, rangeStart,
                                                      addDays(rangeStart, days), days)]
          /\ UNCHANGED property

\* renderSingleProperty's grid for the property and a month.
ClassifyMonth ==
    /\ out.kind = "none"
    /\ \E monthStart \in MonthInputs :
          /\ out' = [kind |-> "single", view |-> singleView(property, monthStart)]
          /\ UNCHANGED property

NextRolling == ClassifyRolling /\ UNCHANGED <<uiVars, hiVars>>

SpecRolling == InitCore /\ [][NextRolling]_vars

NextMonth == ClassifyMonth /\ UNCHANGED <<uiVars, hiVars>>

SpecMonth == InitCore /\ [][NextMonth]_vars

\* ---- Both renderers on the same property

\* The rolling row and the month grid renderCalendar and renderSingleProperty
\* build for the same property.
ClassifyBoth ==
    /\ out.kind = "none"
    /\ \E rangeStart \in WindowStarts, monthStart \in MonthInputs :
          /\ out' = [kind              |-> "both",
                     rangeStart        |-> rangeStart,
                     rangeEndExclusive |-> addDays(rangeStart, MaxDays),
                     days              |-> MaxDays,
                     row               |-> rollingRow(property, rangeStart,
                                                      addDays(rangeStart, MaxDays),
                                                      MaxDays),
                     view              |-> singleView(property, monthStart)]
          /\ UNCHANGED property

NextBoth == ClassifyBoth /\ UNCHANGED <<uiVars, hiVars>>

SpecBoth == InitCore /\ [][NextBoth]_vars

\* ---- One week row of the month renderer, for one event and any check-out set

\* The first day the events of a week row may start or end on (a Saturday).
WeekDateBase == <<2026, 1, 24>>

\* Week-row events start and end on one of this many consecutive days.
NumWeekDates == 18

WeekDates ==
    {dateToISO(addDays(parseDate(WeekDateBase), k)) : k \in 0 .. (NumWeekDates - 1)}

\* Event types: the two the feed produces and one it does not name.
WeekEventTypes == {"reservation", "closed", "tentative"}

\* The Mondays a week row may start on.
WeekStarts == {parseDate(<<2026, 1, 26>>), parseDate(<<2026, 2, 2>>)}

\* The check-out date sets the row may be drawn with.
CheckoutSets == SUBSET {<<2026, 1, 25>>, <<2026, 1, 28>>, <<2026, 2, 2>>}

InitWeek ==
    /\ property \in {[name |-> "59 Oak Lane", events |-> <<e>>] :
                        e \in [uid : {"a"}, type : WeekEventTypes,
                               start : WeekDates, end : WeekDates]}
    /\ out = [kind |-> "none"]
    /\ uiIdle
    /\ hiIdle

\* The pill of the event in one week row of renderSingleProperty, and what
\* computeEventSpan returns for the same event, week and check-out set.
ClassifyWeek ==
    /\ out.kind = "none"
    /\ \E weekStart \in WeekStarts, reservationCheckouts \in CheckoutSets :
          /\ out' = [kind      |-> "week",
                     weekStart |-> weekStart,
                     checkouts |-> reservationCheckouts,
                     pill      |-> weekPill(property.events[1], weekStart,
                                            reservationCheckouts),
                     span      |-> computeEventSpan(property.events[1], weekStart,
                                                    addDays(weekStart, 7),
                                                    reservationCheckouts)]
          /\ UNCHANGED property

NextWeek == ClassifyWeek /\ UNCHANGED <<uiVars, hiVars>>

SpecWeek == InitWeek /\ [][NextWeek]_vars

(***************************************************************************)
(* Specification of halfIndex on drawn arguments                           *)
(***************************************************************************)

\* Date strings on both sides of month ends, a leap day and a year end.
HalfDates ==
    { <<2025, 12, 1>>, <<2025, 12, 31>>, <<2026, 1, 1>>, <<2026, 1, 29>>,
      <<2026, 1, 31>>, <<2026, 2, 1>>, <<2026, 2, 28>>, <<2026, 3, 1>>,
      <<2024, 2, 28>>, <<2024, 2, 29>>, <<2024, 3, 1>> }

\* The window moves by up to this many days either way.
MaxMove == 31

InitHalf ==
    /\ hiArgs \in [date : HalfDates, rangeStart : HalfDates, half : {"am", "pm"},
                   n : (-MaxMove) .. MaxMove]
    /\ hiOut = [done |-> FALSE]
    /\ uiIdle
    /\ coreIdle

\* halfIndex for the date against the range start, against the range start
\* moved by n days, and for the range start against itself.
HalfIndexCall ==
    /\ ~hiOut.done
    /\ hiOut' = [done    |-> TRUE,
                 base    |-> halfIndex(parseDate(hiArgs.date),
                                       parseDate(hiArgs.rangeStart), hiArgs.half),
                 moved   |-> halfIndex(parseDate(hiArgs.date),
                                       addDays(parseDate(hiArgs.rangeStart), hiArgs.n),
                                       hiArgs.half),
                 atStart |-> halfIndex(parseDate(hiArgs.rangeStart),
                                       parseDate(hiArgs.rangeStart), hiArgs.half)]
    /\ UNCHANGED hiArgs

NextHalf == HalfIndexCall /\ UNCHANGED <<uiVars, coreVars>>

SpecHalf == InitHalf /\ [][NextHalf]_vars

(***************************************************************************)
(* Claims                                                                  *)
(***************************************************************************)

\* An independent count of civil days, from the lengths of the months.
IsLeapYear(y) == (y % 4 = 0 /\ y % 100 # 0) \/ y % 400 = 0

DaysBeforeMonth(y, m) ==
    <<0, 31, 59, 90, 120, 151, 181, 212, 243, 273, 304, 334>>[m]
    + (IF m > 2 /\ IsLeapYear(y) THEN 1 ELSE 0)

CivilOrdinal(iso) ==
    365 * (iso[1] - 2000) + Cardinality({k \in 2000 .. (iso[1] - 1) : IsLeapYear(k)})
    + DaysBeforeMonth(iso[1], iso[2]) + iso[3]

\* Whole days from one ISO date to another.
WholeDays(from, to) == CivilOrdinal(to) - CivilOrdinal(from)

HalfOffset(half) == IF half = "pm" THEN 2 ELSE 1

\* The events of the classified property, by index.
Ev(i) == property.events[i]

EvStart(i) == parseDate(property.events[i].start)

EvEnd(i) == parseDate(property.events[i].end)

\* Every event of the classified property has start < end.
AllEventsValid == \A i \in DOMAIN property.events : EvStart(i) < EvEnd(i)

\* Event i intersects the classified window.
Intersects(i) == ~(EvEnd(i) <= out.rangeStart \/ EvStart(i) >= out.rangeEndExclusive)

\* Some reservation of the property checks out on the day event i starts.
StartsOnCheckoutDate(i) ==
    \E j \in DOMAIN property.events :
        Ev(j).type # "closed" /\ EvEnd(j) = EvStart(i)

MaxDate(a, b) == IF a < b THEN b ELSE a

\* C5: halfIndex(date, rangeStart, half) is the number of whole days from
\* rangeStart to date, times 2, plus 2 for PM and 1 for AM, whatever months
\* or years the two dates fall in; moving rangeStart by N days lowers the
\* index by exactly 2N; and the range start itself has index 1 (AM), 2 (PM).
C5_HalfIndexElapsedDays ==
    hiOut.done =>
        /\ hiOut.base = WholeDays(hiArgs.rangeStart, hiArgs.date) * 2
                        + HalfOffset(hiArgs.half)
        /\ hiOut.moved = hiOut.base - 2 * hiArgs.n
        /\ hiOut.atStart = HalfOffset(hiArgs.half)

\* halfIndex has been applied across a year end with the window moved by a
\* whole month of 31 days.
C5_Witness ==
    /\ hiOut.done
    /\ hiArgs.date = <<2026, 3, 1>>
    /\ hiArgs.rangeStart = <<2025, 12, 31>>
    /\ hiArgs.half = "pm"
    /\ hiArgs.n = 31
    /\ hiOut.base = 122
    /\ hiOut.moved = 60

\* C1: a reservation with rangeStart <= start < end < rangeEndExclusive is
\* projected to exactly [halfIndex(start, PM), halfIndex(end, AM) + 1), that
\* is arrival afternoon through check-out morning; with the window starting
\* Jan 29, the reservation Jan 30 -> Feb 1 gives [4, 8).
C1_ReservationInsideWindow ==
    out.kind = "rolling" =>
        \A i \in DOMAIN property.events :
            (/\ Ev(i).type = "reservation"
             /\ out.rangeStart <= EvStart(i)
             /\ EvStart(i) < EvEnd(i)
             /\ EvEnd(i) < out.rangeEndExclusive)
            =>
            /\ out.row.spans[i] =
                  [startHalf |-> halfIndex(EvStart(i), out.rangeStart, "pm"),
                   endHalf   |-> halfIndex(EvEnd(i), out.rangeStart, "am") + 1]
            /\ out.row.spans[i].startHalf =
                  WholeDays(dateToISO(out.rangeStart), Ev(i).start) * 2 + 2
            /\ out.row.spans[i].endHalf =
                  WholeDays(dateToISO(out.rangeStart), Ev(i).end) * 2 + 2
            /\ (/\ dateToISO(out.rangeStart) = <<2026, 1, 29>>
                /\ Ev(i).start = <<2026, 1, 30>>
                /\ Ev(i).end = <<2026, 2, 1>>)
               => out.row.spans[i] = [startHalf |-> 4, endHalf |-> 8]

\* The window Jan 29 - Feb 2 has been rendered with the reservation
\* Jan 30 -> Feb 1, drawn as [4, 8).
C1_Witness ==
    /\ out.kind = "rolling"
    /\ dateToISO(out.rangeStart) = <<2026, 1, 29>>
    /\ out.days = 5
    /\ Ev(1).type = "reservation"
    /\ Ev(1).start = <<2026, 1, 30>>
    /\ Ev(1).end = <<2026, 2, 1>>
    /\ out.row.pills[1] = [drawn |-> TRUE, startHalf |-> 4, endHalf |-> 8]

\* The general part of C2: a closed period that intersects the window starts
\* at halfIndex(max(start, rangeStart), PM) when its start date is the
\* check-out date of a reservation of the property and at
\* halfIndex(max(start, rangeStart), AM) otherwise, and ends at
\* halfIndex(end, AM) when end < rangeEndExclusive.
ClosedPeriodRule(i) ==
    (Ev(i).type = "closed" /\ Intersects(i)) =>
        /\ out.row.spans[i].startHalf =
              halfIndex(MaxDate(EvStart(i), out.rangeStart), out.rangeStart,
                        IF StartsOnCheckoutDate(i) THEN "pm" ELSE "am")
        /\ EvEnd(i) < out.rangeEndExclusive =>
              out.row.spans[i].endHalf = halfIndex(EvEnd(i), out.rangeStart, "am")

\* Event i is the closed period Feb 1 -> Feb 3, Feb 1 is a check-out date,
\* and the window, which starts on the given day, contains the period.
ClosedFebExample(i, windowStart) ==
    /\ Ev(i).type = "closed"
    /\ Ev(i).start = <<2026, 2, 1>>
    /\ Ev(i).end = <<2026, 2, 3>>
    /\ StartsOnCheckoutDate(i)
    /\ dateToISO(out.rangeStart) = windowStart
    /\ EvEnd(i) <= out.rangeEndExclusive

\* C2 as claimed: the closed-period rule, with the example that the closed
\* period Feb 1 -> Feb 3 starting on a check-out date gives [6, 9) in a window
\* starting Jan 29.
C2_AsClaimed ==
    out.kind = "rolling" =>
        \A i \in DOMAIN property.events :
            /\ ClosedPeriodRule(i)
            /\ ClosedFebExample(i, <<2026, 1, 29>>) =>
                  out.row.spans[i] = [startHalf |-> 6, endHalf |-> 9]

\* C2 as amended: the closed-period rule, with the example that the closed
\* period Feb 1 -> Feb 3 starting on a check-out date gives [6, 9) in a window
\* starting Jan 30 (in a window starting Jan 29 it gives [8, 11)).
C2_ClosedPeriodStart ==
    out.kind = "rolling" =>
        \A i \in DOMAIN property.events :
            /\ ClosedPeriodRule(i)
            /\ ClosedFebExample(i, <<2026, 1, 30>>) =>
                  out.row.spans[i] = [startHalf |-> 6, endHalf |-> 9]
            /\ ClosedFebExample(i, <<2026, 1, 29>>) =>
                  out.row.spans[i] = [startHalf |-> 8, endHalf |-> 11]

\* A closed period Feb 1 -> Feb 3 that follows a reservation checking out on
\* Feb 1 has been drawn from the afternoon of Feb 1 in a window starting
\* Jan 30.
C2_Witness ==
    /\ out.kind = "rolling"
    /\ ClosedFebExample(2, <<2026, 1, 30>>)
    /\ Ev(1).type = "reservation"
    /\ Ev(1).start = <<2026, 1, 30>>
    /\ Ev(1).end = <<2026, 2, 1>>
    /\ out.row.pills[2] = [drawn |-> TRUE, startHalf |-> 6, endHalf |-> 9]

\* C3: every event that intersects the window and has end >= rangeEndExclusive
\* ends at totalHalves + 1, totalHalves being twice the days of the window;
\* and an event with start < rangeStart and end > rangeEndExclusive is
\* projected to the full window [1, totalHalves + 1).  (Stated for properties
\* whose events all have start < end.)
C3_ClampToWindowEnd ==
    (out.kind = "rolling" /\ AllEventsValid) =>
        \A i \in DOMAIN property.events :
            /\ (Intersects(i) /\ EvEnd(i) >= out.rangeEndExclusive) =>
                  out.row.spans[i].endHalf = 2 * out.days + 1
            /\ (EvStart(i) < out.rangeStart /\ EvEnd(i) > out.rangeEndExclusive) =>
                  out.row.spans[i] = [startHalf |-> 1, endHalf |-> 2 * out.days + 1]

\* C4: for an event with start < end, no interval is projected exactly when
\* end <= rangeStart or start >= rangeEndExclusive, and the interval projected
\* for an event that intersects the window satisfies
\* 1 <= startHalf < endHalf <= totalHalves + 1.
C4_NoneIffOutside ==
    out.kind = "rolling" =>
        \A i \in DOMAIN property.events :
            EvStart(i) < EvEnd(i) =>
                /\ ~out.row.pills[i].drawn <=> ~Intersects(i)
                /\ (out.row.spans[i] = null) <=> ~Intersects(i)
                /\ out.row.pills[i].drawn =>
                      /\ 1 <= out.row.pills[i].startHalf
                      /\ out.row.pills[i].startHalf < out.row.pills[i].endHalf
                      /\ out.row.pills[i].endHalf <= 2 * out.days + 1

\* A closed period that starts in the afternoon of a check-out date on the
\* window's last day has been drawn in the window's last half slot.
C4_Witness ==
    /\ out.kind = "rolling"
    /\ Ev(1).type = "closed"
    /\ EvStart(1) < EvEnd(1)
    /\ StartsOnCheckoutDate(1)
    /\ EvStart(1) = addDays(out.rangeEndExclusive, -1)
    /\ out.row.pills[1] = [drawn |-> TRUE, startHalf |-> 2 * out.days,
                           endHalf |-> 2 * out.days + 1]

\* The property without its event d, and where event i of the property is
\* found in it.
WithoutEvent(d) ==
    [property EXCEPT !.events =
        SubSeq(property.events, 1, d - 1)
        \o SubSeq(property.events, d + 1, Len(property.events))]

IndexWithout(d, i) == IF i < d THEN i ELSE i - 1

\* C6: an event with end <= start has no effect on the render: it gets no
\* pill, and the pills of the other events and the occupied half slots are
\* those of the property without it.
C6_DegenerateEventIgnored ==
    out.kind = "rolling" =>
        \A d \in DOMAIN property.events :
            EvEnd(d) <= EvStart(d) =>
                /\ ~out.row.pills[d].drawn
                /\ \A i \in DOMAIN property.events \ {d} :
                      out.row.pills[i] =
                          rollingRow(WithoutEvent(d), out.rangeStart,
                                     out.rangeEndExclusive, out.days)
                              .pills[IndexWithout(d, i)]
                /\ out.row.occupied =
                      rollingRow(WithoutEvent(d), out.rangeStart,
                                 out.rangeEndExclusive, out.days).occupied

\* Date D is the check-out date of one booking and the arrival date of a
\* different booking of the property.
TurnoverBetweenBookings(D) ==
    \E i, j \in DOMAIN property.events :
        /\ Ev(i).type # "closed"
        /\ Ev(j).type # "closed"
        /\ Ev(i).uid # Ev(j).uid
        /\ Ev(i).end = D
        /\ Ev(j).start = D

\* C7: in the month renderer a date is a quick-turn date if and only if one
\* booking checks out on it and a different booking arrives on it.
C7_MonthQuickTurnIdentity ==
    out.kind = "single" =>
        \A D \in EventDates :
            D \in out.view.quickTurns <=> TurnoverBetweenBookings(D)

\* The one reservation of the property that touches date D starts and ends
\* on D.
OnlySameDayReservation(D) ==
    /\ \E i \in DOMAIN property.events :
          Ev(i).type # "closed" /\ Ev(i).start = D /\ Ev(i).end = D
    /\ Cardinality({i \in DOMAIN property.events :
                      /\ Ev(i).type # "closed"
                      /\ \/ Ev(i).start = D
                         \/ Ev(i).end = D
                         \/ (EvStart(i) < parseDate(D) /\ parseDate(D) < EvEnd(i))})
       = 1

\* C8: in both renderers, a date that only a single reservation with
\* start = end touches is not a quick-turn date.
C8_SameDayReservationNoQuickTurn ==
    /\ out.kind = "rolling" =>
          \A D \in EventDates : OnlySameDayReservation(D) => D \notin out.row.quickTurns
    /\ out.kind = "single" =>
          \A D \in EventDates : OnlySameDayReservation(D) => D \notin out.view.quickTurns

\* The month renderer's half of C8, which the code satisfies.
C8_MonthHalf ==
    out.kind = "single" =>
        \A D \in EventDates : OnlySameDayReservation(D) => D \notin out.view.quickTurns

\* C9: every render of the rolling view uses a window of exactly VIEW_DAYS
\* days that does not start before MIN_DATE.
C9_RollingWindowClamped ==
    calendarEl.mode = "rolling" =>
        /\ diffDays(calendarEl.rangeStart, calendarEl.rangeEndExclusive) = VIEW_DAYS
        /\ calendarEl.rangeStart >= MIN_DATE

\* The length half of C9, which the code satisfies.
C9_WindowLength ==
    calendarEl.mode = "rolling" =>
        diffDays(calendarEl.rangeStart, calendarEl.rangeEndExclusive) = VIEW_DAYS

\* C10: in the rolling view a Prev click moves the window start 30 days back
\* and a Next click 30 days forward, subject only to the MIN_DATE clamp.
C10_PrevNextShiftWindow ==
    [][ (calendarEl.mode = "rolling" /\ propertyFilter = "all") =>
          /\ lastAction' = "next" =>
                calendarEl'.rangeStart =
                    MaxDate(MIN_DATE, addDays(calendarEl.rangeStart, VIEW_SHIFT_DAYS))
          /\ lastAction' = "prev" =>
                calendarEl'.rangeStart =
                    MaxDate(MIN_DATE, addDays(calendarEl.rangeStart, -VIEW_SHIFT_DAYS))
      ]_vars

\* C11: the pill the month renderer draws for an event in a week row is the
\* interval computeEventSpan yields for the week as a 7-day window: a pill is
\* drawn exactly when the span is an interval with startHalf < endHalf, and
\* then colStart = startHalf and colEnd = endHalf.
C11_WeekPillIsEventSpan ==
    out.kind = "week" =>
        /\ out.pill.drawn <=>
              (out.span # null /\ out.span.startHalf < out.span.endHalf)
        /\ out.pill.drawn =>
              /\ out.pill.startHalf = out.span.startHalf
              /\ out.pill.endHalf = out.span.endHalf

\* A closed period that starts on a check-out date inside the week and ends
\* on the Monday after it has been drawn to the end of the week row.
C11_Witness ==
    /\ out.kind = "week"
    /\ dateToISO(out.weekStart) = <<2026, 1, 26>>
    /\ Ev(1).type = "closed"
    /\ Ev(1).start = <<2026, 1, 28>>
    /\ Ev(1).end = <<2026, 2, 2>>
    /\ Ev(1).start \in out.checkouts
    /\ out.pill = [drawn |-> TRUE, startHalf |-> 6, endHalf |-> 15]
    /\ out.span = [startHalf |-> 6, endHalf |-> 15]

\* The dates the rolling window shows and the dates the month grid shows.
RollingDates == {dateToISO(addDays(out.rangeStart, day)) : day \in 0 .. (out.days - 1)}

MonthGridDates ==
    {dateToISO(addDays(out.view.gridStart, day)) : day \in 0 .. (out.view.weeks * 7 - 1)}

\* C12: for every date shown both in the rolling window and in the month
\* grid, the rolling renderer marks the day's availability cell occupied if
\* and only if the month renderer marks the day's cell occupied.  (Stated for
\* properties whose events all have start < end.)
C12_ViewsAgreeOnOccupiedDays ==
    (out.kind = "both" /\ AllEventsValid) =>
        \A D \in RollingDates \cap MonthGridDates :
            D \in out.row.occupiedCells <=> D \in out.view.occupiedCells

\* C13: a scroll request superseded by a later render is discarded: of the
\* callbacks waiting, only the one scheduled last can still act; and whatever
\* has been scrolled into view in the displayed calendar is the target of the
\* newest request (the focus date of the render that displayed it), never
\* the target of an earlier one.
C13_StaleScrollDiscarded ==
    /\ \A k \in 1 .. (Len(rafQueue) - 1) : ~rafQueue[k].attached
    /\ calendarEl.mode = "single" => \A k \in DOMAIN rafQueue : ~rafQueue[k].attached
    /\ scrolled # <<>> =>
          /\ calendarEl.mode = "rolling"
          /\ scrolled = dateToISO(focusDate)

\* Two renders each scheduled a scroll before any callback ran; the callback
\* of the first has run and scrolled nothing, and the callback of the second,
\* for another date, is still waiting.
C13_Witness ==
    /\ lastAction = "raf"
    /\ scrolled = <<>>
    /\ Len(rafQueue) = 1
    /\ rafQueue[1].attached
    /\ rafQueue[1].found
    /\ rafQueue[1].target = <<2026, 3, 9>>
    /\ calendarEl.mode = "rolling"

\* C14: when a navigation handler has returned, in either view mode, no
\* scroll request is left pending.
C14_PendingScrollConsumed ==
    lastAction \in {"prev", "next", "today", "month", "filter", "wheel"} =>
        pendingScrollToISO = <<>>

====
